---- MODULE Spec2Model ----
(***************************************************************************)
(* Model of the respondr-api backend: the decision-fusion engine           *)
(* (agent_decision_maker), the tip generator, the follow-up intent         *)
(* classifier (agent_intelligent_query_analyzer), the service catalog      *)
(* lookup (agent_location_search) and the chat narrative composer          *)
(* (generate_chat_response) of server/agents.py, and the request handlers  *)
(* analyze, chat_followup and delete_session of server/main.py with their  *)
(* in-memory store chat_sessions.                                          *)
(*                                                                         *)
(* Python values are modelled as follows: str is a TLA+ string, list is a  *)
(* sequence, dict is a record whose DOMAIN is the set of keys present,     *)
(* None is the record None.  Substring tests ("kw in text") are computed   *)
(* on the characters of the strings.                                       *)
(***************************************************************************)
EXTENDS Integers, Sequences, FiniteSets, TLC

VARIABLES
    pc,             \* position of the modelled call: "input", "fused", "classified", "composed";
                    \* in the server the handler that ran last: "idle", "analyzed", "chatted",
                    \* "refused", "failed", "deleted"
    video,          \* video_analysis dict handed to agent_decision_maker
    note,           \* the user's note (text_input of agent_analyze_text)
    decision,       \* dict returned by agent_decision_maker, None before the call
    message,        \* follow-up message
    last_analysis,  \* the "analysis" dict of the most recent analysis entry, or None
    context,        \* context argument of agent_intelligent_query_analyzer
    intent,         \* dict returned by agent_intelligent_query_analyzer, None before / on error
    raised,         \* name of the exception the call raised, "" when it returned
    narrative,      \* str returned by generate_chat_response, None before the call
    chat_sessions,  \* the server's store: session id -> list of history entries
    response,       \* what the last request handler returned, None before any request
    requests,       \* number of requests the server has handled
    requested_id    \* session_id parameter of the last request, "" before any request

vars == <<pc, video, note, decision, message, last_analysis, context, intent, raised, narrative,
          chat_sessions, response, requests, requested_id>>

\* the state of the server
server_vars == <<chat_sessions, response, requests, requested_id>>

None == [py_none |-> TRUE]

\* chat_sessions = {} (main.py), the store without a session
EmptyStore == [session_id \in {} |-> <<>>]

(***************************************************************************)
(* Bounds of the model.                                                    *)
(***************************************************************************)
MaxPhrases == 2     \* phrases joined into one note
MaxCars == 3        \* largest cars_involved the video analyzer reports
MaxMsgParts == 2    \* fragments joined into one follow-up message

(***************************************************************************)
(* Python string and list primitives.                                      *)
(***************************************************************************)
UpperChars == "ABCDEFGHIJKLMNOPQRSTUVWXYZ"
LowerChars == "abcdefghijklmnopqrstuvwxyz"

CharAt(s, i) == SubSeq(s, i, i)

\* the lower-case letter of each upper-case letter
ToLower ==
    [c \in {CharAt(UpperChars, i) : i \in 1..Len(UpperChars)} |->
        CharAt(LowerChars, CHOOSE i \in 1..Len(UpperChars) : CharAt(UpperChars, i) = c)]

\* str.lower() on one character
LowerChar(c) == IF c \in DOMAIN ToLower THEN ToLower[c] ELSE c

RECURSIVE LowerBetween(_, _, _)
\* str.lower() on the characters i..j, computed by halves
LowerBetween(s, i, j) ==
    IF i > j THEN ""
    ELSE IF i = j THEN LowerChar(CharAt(s, i))
    ELSE LowerBetween(s, i, (i + j) \div 2) \o LowerBetween(s, (i + j) \div 2 + 1, j)

\* str.lower()
Lower(s) == LowerBetween(s, 1, Len(s))

IsSpace(c) == c \in {" ", "\t", "\n", "\r"}

\* str.strip()
Strip(s) ==
    LET idx == {i \in 1..Len(s) : ~IsSpace(CharAt(s, i))}
    IN  IF idx = {} THEN ""
        ELSE SubSeq(s, CHOOSE i \in idx : \A j \in idx : i <= j,
                       CHOOSE i \in idx : \A j \in idx : i >= j)

\* k in s, for strings
Contains(s, k) ==
    \E i \in 1..(Len(s) - Len(k) + 1) : SubSeq(s, i, i + Len(k) - 1) = k

\* any(word in text for word in words)
AnyIn(words, text) == \E w \in words : Contains(text, w)

\* x in lst, for lists
InList(x, lst) == \E i \in 1..Len(lst) : lst[i] = x

ToSet(lst) == {lst[i] : i \in 1..Len(lst)}

RECURSIVE Join(_, _)
\* sep.join(lst)
Join(sep, lst) ==
    IF Len(lst) = 0 THEN ""
    ELSE IF Len(lst) = 1 THEN lst[1]
    ELSE lst[1] \o sep \o Join(sep, Tail(lst))

\* str(lst) for a list of strings: "['a', 'b']"
PyStrList(lst) ==
    "[" \o Join(", ", [i \in 1..Len(lst) |-> "'" \o lst[i] \o "'"]) \o "]"

\* str.replace(old, new) for a one-character old
RECURSIVE ReplaceFrom(_, _, _, _)
ReplaceFrom(s, old, new, i) ==
    IF i > Len(s) THEN ""
    ELSE (IF CharAt(s, i) = old THEN new ELSE CharAt(s, i)) \o ReplaceFrom(s, old, new, i + 1)

Replace(s, old, new) == ReplaceFrom(s, old, new, 1)

\* dict.get(key, default)
Get(d, key, default) == IF key \in DOMAIN d THEN d[key] ELSE default

RECURSIVE Perms(_)
\* every order in which iterating a Python set of strings can list its elements
Perms(S) ==
    IF S = {} THEN {<<>>}
    ELSE UNION {{<<x>> \o p : p \in Perms(S \ {x})} : x \in S}

\* lst[:n]
Take(lst, n) == SubSeq(lst, 1, IF Len(lst) < n THEN Len(lst) ELSE n)

(***************************************************************************)
(* agent_analyze_text                                                      *)
(***************************************************************************)
\* more than this many characters, stripped, make a note count as content
MinContentLen == 5

\* agent_analyze_text measuring the note as typed, blanks included
agent_analyze_text_Untrimmed(text_input) ==
    [note |-> text_input,
     length |-> Len(text_input),
     has_content |-> Len(text_input) > MinContentLen]

agent_analyze_text(text_input) ==
    [note |-> text_input,
     length |-> Len(text_input),
     has_content |-> Len(Strip(text_input)) > MinContentLen]

(***************************************************************************)
(* agent_decision_maker: keyword tables                                    *)
(***************************************************************************)
SevereWords ==
    {"emergency", "911", "ambulance", "serious injury", "bleeding", "unconscious",
     "severe", "hospital"}

MajorWords == {"major damage", "can't drive", "won't start", "tow", "significant", "airbag"}

MinorWords == {"minor", "small", "tiny", "little", "scratch", "fender bender"}

MultiWords == {"other driver", "their car", "two car", "multi", "hit by", "collision with"}

SoloWords == {"solo", "alone", "just me", "by myself", "hit a pole", "hit a curb"}

\* keys of text_damage_indicators, in dict order
DamageTypes == <<"tire damage", "engine damage", "body damage", "glass damage", "fluid leak">>

text_damage_indicators ==
    [t \in ToSet(DamageTypes) |->
        CASE t = "tire damage" -> {"tire", "flat", "puncture", "rim", "blew out"}
          [] t = "engine damage" -> {"won't start", "engine", "smoke", "steam", "overheating"}
          [] t = "body damage" -> {"dent", "scratch", "bumper", "door", "fender", "body"}
          [] t = "glass damage" -> {"windshield", "window", "glass", "cracked"}
          [] t = "fluid leak" -> {"leak", "oil", "coolant", "fluid"}]

(***************************************************************************)
(* agent_decision_maker: the text overrides                                *)
(***************************************************************************)
\* TextSeverity with the major group tested before the severe group
TextSeverity_MajorFirst(text_content) ==
    IF AnyIn(MajorWords, text_content) THEN "major"
    ELSE IF AnyIn(SevereWords, text_content) THEN "severe"
    ELSE IF AnyIn(MinorWords, text_content) THEN "minor"
    ELSE ""

\* the severity the text names, "" when no severity keyword matches
TextSeverity(text_content) ==
    IF AnyIn(SevereWords, text_content) THEN "severe"
    ELSE IF AnyIn(MajorWords, text_content) THEN "major"
    ELSE IF AnyIn(MinorWords, text_content) THEN "minor"
    ELSE ""

\* the car-involvement group the text names, "" when none matches
TextCars(text_content) ==
    IF AnyIn(MultiWords, text_content) THEN "multi"
    ELSE IF AnyIn(SoloWords, text_content) THEN "solo"
    ELSE ""

Max(a, b) == IF a >= b THEN a ELSE b

\* ApplyTextCars with the solo branch leaving the video's count
ApplyTextCars_SoloKeepsVideo(group, final_cars_involved) ==
    IF group = "multi" THEN Max(2, final_cars_involved)
    ELSE final_cars_involved

\* ApplyTextCars with the multi branch setting 2 instead of max(2, count)
ApplyTextCars_MultiSetsTwo(group, final_cars_involved) ==
    IF group = "multi" THEN 2
    ELSE IF group = "solo" THEN 1
    ELSE final_cars_involved

\* final_cars_involved after the car-involvement branch
ApplyTextCars(group, final_cars_involved) ==
    IF group = "multi" THEN Max(2, final_cars_involved)
    ELSE IF group = "solo" THEN 1
    ELSE final_cars_involved

RECURSIVE AddTextDamages(_, _, _)
\* the loop over text_damage_indicators, from its i-th key on
AddTextDamages(final_damages, text_content, i) ==
    IF i > Len(DamageTypes) THEN final_damages
    ELSE LET damage_type == DamageTypes[i]
         IN  IF /\ AnyIn(text_damage_indicators[damage_type], text_content)
                /\ ~InList(damage_type, final_damages)
             THEN AddTextDamages(Append(final_damages, damage_type), text_content, i + 1)
             ELSE AddTextDamages(final_damages, text_content, i + 1)

(***************************************************************************)
(* agent_decision_maker: summaries                                         *)
(***************************************************************************)
OverviewSummary(final_severity, final_cars_involved, text_override_applied) ==
    "I've analyzed a " \o final_severity \o " incident involving "
        \o ToString(final_cars_involved) \o " vehicle(s)."
        \o (IF text_override_applied
            THEN " My assessment prioritized your text description." ELSE "")

DetailedExplanation(final_severity, final_cars_involved, final_damages) ==
    "Based on the combined video and text analysis, this appears to be a "
        \o final_severity \o " situation. "
        \o (IF final_cars_involved > 1
            THEN "With " \o ToString(final_cars_involved)
                 \o " vehicles involved, it's crucial to handle information exchange properly. "
            ELSE "As a solo-vehicle incident, the primary focus is on your safety and vehicle condition. ")
        \o (IF Len(final_damages) > 0
            THEN "The detected damages include: " \o Join(", ", final_damages)
                 \o ". This suggests attention may be needed for these specific areas."
            ELSE "No specific external damages were immediately obvious, but internal issues could still exist.")

(***************************************************************************)
(* agent_decision_maker: priority, advice and recommendations              *)
(***************************************************************************)
\* any("tire" in str(d).lower() for d in damages)
HasTireDamage(damages) == \E i \in 1..Len(damages) : Contains(Lower(damages[i]), "tire")

\* Priority with the minor branch keeping the initial "low"
Priority_MinorStaysLow(final_severity) ==
    IF final_severity = "severe" THEN "emergency"
    ELSE IF final_severity = "major" THEN "high"
    ELSE "low"

Priority(final_severity) ==
    IF final_severity = "severe" THEN "emergency"
    ELSE IF final_severity = "major" THEN "high"
    ELSE "medium"

ImmediateActions(final_severity, final_damages) ==
    IF final_severity = "severe" THEN
        <<"CALL 911 IMMEDIATELY if not already done.",
          "Check for injuries on yourself and others. Do not move anyone who is seriously injured unless they are in immediate danger.",
          "Move to a safe location away from traffic if possible.",
          "Turn on your vehicle's hazard lights to warn other drivers.">>
    ELSE IF final_severity = "major" THEN
        <<"Ensure you and any passengers are in a safe location away from traffic.",
          "Call the police to file an official report, which is crucial for insurance.",
          "Exchange contact and insurance information with any other drivers involved.",
          "Take extensive photos of all vehicle damage, license plates, and the accident scene.">>
    ELSE IF HasTireDamage(final_damages) THEN
        <<"Pull over to a safe, level location away from traffic.",
          "Assess the tire damage. If it's flat, prepare to use your spare or call for assistance.",
          "Turn on your hazard lights while you are on the roadside.">>
    ELSE
        <<"Move your vehicle out of traffic if it is safe and legal to do so.",
          "Inspect your vehicle thoroughly for any damage you may have missed.",
          "If another driver is involved, exchange insurance and contact information.">>

GeneralAdvice(final_severity) ==
    IF final_severity = "severe" THEN
        <<"Cooperate with police and emergency responders.",
          "Avoid discussing fault at the scene.",
          "Once safe, take photos of the scene and vehicle damage.",
          "Contact your insurance company after the immediate emergency is handled.">>
    ELSE IF final_severity = "major" THEN
        <<"Do not drive your vehicle if it seems unsafe; call for a tow.",
          "Notify your insurance provider about the accident promptly.",
          "Begin the process of getting repair estimates from certified shops.",
          "Keep detailed records of all communication and expenses.">>
    ELSE
        <<"Take photos of the damage, even if it seems minor.",
          "Decide whether to file an insurance claim based on the repair cost and your deductible.",
          "Get a professional estimate to understand the full extent of the damage.",
          "Even for minor damage, filing a police report can be beneficial.">>

\* LocationRecommendations with the tire shop recommended for a major accident too
LocationRecommendations_TireForMajor(final_severity, final_damages) ==
    IF final_severity = "severe" THEN
        <<[type |-> "hospital",
           reason |-> "Severe accidents require immediate medical evaluation.",
           priority |-> "immediate"]>>
    ELSE
        (IF HasTireDamage(final_damages)
         THEN <<[type |-> "tire_shop",
                 reason |-> "A damaged tire needs immediate repair or replacement.",
                 priority |-> "urgent"]>>
         ELSE <<>>)
        \o (IF final_severity = "major"
            THEN <<[type |-> "auto_body_shop",
                    reason |-> "Major damage requires a professional collision center.",
                    priority |-> "urgent"],
                   [type |-> "tow_truck",
                    reason |-> "Vehicle may be unsafe to operate.",
                    priority |-> "immediate"]>>
            ELSE <<[type |-> "mechanic",
                    reason |-> "Even minor incidents can cause hidden damage.",
                    priority |-> "soon"]>>)

LocationRecommendations(final_severity, final_damages) ==
    IF final_severity = "severe" THEN
        <<[type |-> "hospital",
           reason |-> "Severe accidents require immediate medical evaluation.",
           priority |-> "immediate"]>>
    ELSE IF final_severity = "major" THEN
        <<[type |-> "auto_body_shop",
           reason |-> "Major damage requires a professional collision center.",
           priority |-> "urgent"],
          [type |-> "tow_truck",
           reason |-> "Vehicle may be unsafe to operate.",
           priority |-> "immediate"]>>
    ELSE
        (IF HasTireDamage(final_damages)
         THEN <<[type |-> "tire_shop",
                 reason |-> "A damaged tire needs immediate repair or replacement.",
                 priority |-> "urgent"]>>
         ELSE <<>>)
        \o <<[type |-> "mechanic",
              reason |-> "Even minor incidents can cause hidden damage.",
              priority |-> "soon"]>>

(***************************************************************************)
(* _generate_comprehensive_tips                                            *)
(***************************************************************************)
\* tips[:8]
MaxTips == 8

DocumentationTips ==
    <<"Use your phone to document everything: photos of damage, the scene, license plates, and insurance cards.",
      "Write down your own account of what happened as soon as possible while it's fresh in your mind.">>

MultiVehicleTips ==
    <<"Avoid admitting fault. Stick to the facts when speaking with other drivers and the police.",
      "Get contact information for any witnesses who saw the accident.">>

TireTip ==
    "When getting a tire replaced, ask the shop to check your vehicle's alignment as well, as impacts can throw it off."

MedicalTip ==
    "Keep a detailed log of all medical visits, expenses, and days missed from work if you are injured."

InsuranceTips ==
    <<"Notify your insurance company quickly, even if you're not at fault.",
      "Understand your insurance coverage, especially your deductible and rental car policy.",
      "Get at least two independent repair estimates before committing to a shop.">>

\* AllTips with the medical tip given for a severe accident only
AllTips_MedicalSevereOnly(severity, damages, cars_involved) ==
    DocumentationTips
        \o (IF cars_involved > 1 THEN MultiVehicleTips ELSE <<>>)
        \o (IF \E i \in 1..Len(damages) : Contains(Lower(damages[i]), "tire")
            THEN <<TireTip>> ELSE <<>>)
        \o (IF severity = "severe" THEN <<MedicalTip>> ELSE <<>>)
        \o InsuranceTips

\* the tips list before the final slice
AllTips(severity, damages, cars_involved) ==
    DocumentationTips
        \o (IF cars_involved > 1 THEN MultiVehicleTips ELSE <<>>)
        \o (IF \E i \in 1..Len(damages) : Contains(Lower(damages[i]), "tire")
            THEN <<TireTip>> ELSE <<>>)
        \o (IF severity \in {"major", "severe"} THEN <<MedicalTip>> ELSE <<>>)
        \o InsuranceTips

\* generate_comprehensive_tips without the final slice
generate_comprehensive_tips_NoSlice(severity, damages, cars_involved) ==
    AllTips(severity, damages, cars_involved)

generate_comprehensive_tips(severity, damages, cars_involved) ==
    Take(AllTips(severity, damages, cars_involved), MaxTips)

\* TextOverrideApplied raised by a severity cue only
TextOverrideApplied_SeverityOnly(text_severity, text_cars, video_damages, final_damages) ==
    text_severity # ""

\* text_override_applied: set where a severity cue matched, where a vehicle
\* cue matched, and where a damage tag was appended
TextOverrideApplied(text_severity, text_cars, video_damages, final_damages) ==
    \/ text_severity # ""
    \/ text_cars # ""
    \/ Len(final_damages) > Len(video_damages)

(***************************************************************************)
(* agent_decision_maker                                                    *)
(***************************************************************************)
\* video_analysis.get("severity", "minor")
VideoSeverity(video_analysis) == Get(video_analysis, "severity", "minor")

\* VideoCarsInvolved with 0 as the default
VideoCarsInvolved_DefaultZero(video_analysis) == Get(video_analysis, "cars_involved", 0)

\* video_analysis.get("cars_involved", 1)
VideoCarsInvolved(video_analysis) == Get(video_analysis, "cars_involved", 1)

\* video_analysis.get("damages", [])
VideoDamages(video_analysis) == Get(video_analysis, "damages", <<>>)

\* UniqueList without the deduplication
UniqueList_NoDedup(final_damages) == {final_damages}

\* list(set(final_damages)): the distinct damages, in any order a set can list them
UniqueList(final_damages) == Perms(ToSet(final_damages))

\* the values agent_decision_maker can return: one dict for each order in
\* which list(set(final_damages)) can list the distinct damages
agent_decision_maker(video_analysis, text_analysis) ==
    LET video_severity == VideoSeverity(video_analysis)
        video_cars_involved == VideoCarsInvolved(video_analysis)
        video_damages == VideoDamages(video_analysis)
        text_content == Lower(Get(text_analysis, "note", ""))
        text_has_content == Get(text_analysis, "has_content", FALSE)
        text_severity == IF text_has_content THEN TextSeverity(text_content) ELSE ""
        text_cars == IF text_has_content THEN TextCars(text_content) ELSE ""
        final_severity == IF text_severity # "" THEN text_severity ELSE video_severity
        final_cars_involved == ApplyTextCars(text_cars, video_cars_involved)
        final_damages ==
            IF text_has_content THEN AddTextDamages(video_damages, text_content, 1)
            ELSE video_damages
        text_override_applied ==
            TextOverrideApplied(text_severity, text_cars, video_damages, final_damages)
    IN  {[priority |-> Priority(final_severity),
          severity |-> final_severity,
          cars_involved |-> final_cars_involved,
          damages |-> unique,
          text_override_applied |-> text_override_applied,
          overview_summary |->
              OverviewSummary(final_severity, final_cars_involved, text_override_applied),
          detailed_explanation |->
              DetailedExplanation(final_severity, final_cars_involved, final_damages),
          immediate_actions |-> ImmediateActions(final_severity, final_damages),
          general_advice |-> GeneralAdvice(final_severity),
          location_recommendations |-> LocationRecommendations(final_severity, final_damages),
          comprehensive_tips |->
              generate_comprehensive_tips(final_severity, final_damages, final_cars_involved)]
         : unique \in UniqueList(final_damages)}

(***************************************************************************)
(* Inputs of the fusion: the notes and video analyses the model draws.     *)
(***************************************************************************)
\* phrases a note is made of; a note joins up to MaxPhrases of them, in this order
NotePhrases ==
    <<"Call 911, ambulance needed", "needs a tow", "minor scratch", "hit a pole",
      "two car crash", "won't start", "I hit a pothole and now my tire is flat",
      "Oil LEAK", " 911  ", "nothing to add">>

RECURSIVE JoinPicked(_, _)
\* the phrases whose indices are in picked, in index order, joined by blanks
JoinPicked(picked, i) ==
    IF i > Len(NotePhrases) THEN <<>>
    ELSE (IF i \in picked THEN <<NotePhrases[i]>> ELSE <<>>) \o JoinPicked(picked, i + 1)

Notes ==
    {Join(" ", JoinPicked(picked, 1)) :
        picked \in {P \in SUBSET (1..Len(NotePhrases)) : Cardinality(P) <= MaxPhrases}}

Severities == {"minor", "major", "severe"}

VideoDamageLists ==
    {<<>>, <<"tire damage">>, <<"dents", "Tire Damage", "dents">>}

\* the dicts the video analyzer can hand over: any of the three fields may be absent
VideoAnalyses ==
    UNION {
        { [f \in F |-> CASE f = "severity" -> s [] f = "cars_involved" -> c [] f = "damages" -> d]
            : s \in Severities, c \in 1..MaxCars, d \in VideoDamageLists }
        : F \in SUBSET {"severity", "cars_involved", "damages"} }

(***************************************************************************)
(* analyze() of server/main.py: the "analysis" dict kept as chat context   *)
(***************************************************************************)
FinalAssessmentOf(dec) ==
    [severity |-> dec.severity,
     cars_involved |-> dec.cars_involved,
     damages |-> dec.damages,
     text_override_applied |-> dec.text_override_applied,
     overview_summary |-> dec.overview_summary,
     detailed_explanation |-> dec.detailed_explanation]

AnalysisOf(video_analysis, text_analysis, dec) ==
    [video |-> video_analysis,
     text |-> text_analysis,
     decision |-> dec,
     final_assessment |-> FinalAssessmentOf(dec)]

(***************************************************************************)
(* agent_intelligent_query_analyzer                                        *)
(***************************************************************************)
location_keywords == {"where", "nearby", "close", "location", "address", "directions", "map"}

\* the keys of service_keywords in alphabetical order
ServiceTypes_Alphabetical ==
    <<"auto_body_shop", "hospital", "mechanic", "police", "tire_shop", "tow_truck">>

\* keys of service_keywords, in dict order
ServiceTypes == <<"tire_shop", "tow_truck", "mechanic", "auto_body_shop", "hospital", "police">>

\* service_keywords with "tow" missing from the tow_truck list
ServiceKeywords_NoTow(service_type) ==
    CASE service_type = "tire_shop" -> {"tire", "flat tire", "puncture", "rim", "wheel"}
      [] service_type = "tow_truck" -> {"towing", "can't drive", "won't start", "stuck"}
      [] service_type = "mechanic" -> {"mechanic", "repair", "fix", "engine", "car trouble"}
      [] service_type = "auto_body_shop" ->
            {"body shop", "collision", "dent", "scratch", "paint", "bumper"}
      [] service_type = "hospital" ->
            {"injured", "hurt", "pain", "emergency", "hospital", "doctor"}
      [] service_type = "police" -> {"police", "report", "officer", "law enforcement"}

\* service_keywords[service_type]
ServiceKeywords(service_type) ==
    CASE service_type = "tire_shop" -> {"tire", "flat tire", "puncture", "rim", "wheel"}
      [] service_type = "tow_truck" -> {"tow", "towing", "can't drive", "won't start", "stuck"}
      [] service_type = "mechanic" -> {"mechanic", "repair", "fix", "engine", "car trouble"}
      [] service_type = "auto_body_shop" ->
            {"body shop", "collision", "dent", "scratch", "paint", "bumper"}
      [] service_type = "hospital" ->
            {"injured", "hurt", "pain", "emergency", "hospital", "doctor"}
      [] service_type = "police" -> {"police", "report", "officer", "law enforcement"}

urgent_keywords == {"emergency", "urgent", "asap", "immediately", "help", "stuck"}

RECURSIVE KeywordSearchTypes(_, _)
\* the loop over service_keywords, from its i-th key on
KeywordSearchTypes(message_lower, i) ==
    IF i > Len(ServiceTypes) THEN <<>>
    ELSE (IF AnyIn(ServiceKeywords(ServiceTypes[i]), message_lower)
          THEN <<ServiceTypes[i]>> ELSE <<>>)
         \o KeywordSearchTypes(message_lower, i + 1)

\* InferredSearchTypes testing the severity before the tire damage
InferredSearchTypes_SeverityFirst(damages, severity) ==
    IF severity = "severe" THEN <<"hospital", "tow_truck">>
    ELSE IF severity = "major" THEN <<"auto_body_shop", "tow_truck">>
    ELSE IF \E i \in 1..Len(damages) : Contains(Lower(damages[i]), "tire") THEN <<"tire_shop">>
    ELSE <<"mechanic">>

\* the categories inferred from the prior assessment
InferredSearchTypes(damages, severity) ==
    IF \E i \in 1..Len(damages) : Contains(Lower(damages[i]), "tire") THEN <<"tire_shop">>
    ELSE IF severity = "severe" THEN <<"hospital", "tow_truck">>
    ELSE IF severity = "major" THEN <<"auto_body_shop", "tow_truck">>
    ELSE <<"mechanic">>

SpecificRequests(message_lower) ==
    (IF \/ Contains(message_lower, "cost")
        \/ Contains(message_lower, "price")
        \/ Contains(message_lower, "how much")
     THEN <<"pricing_info">> ELSE <<>>)
    \o (IF Contains(message_lower, "insurance") THEN <<"insurance_guidance">> ELSE <<>>)
    \o (IF Contains(message_lower, "next step") \/ Contains(message_lower, "what now")
        THEN <<"next_steps">> ELSE <<>>)

\* NeedsLocationSearch set by a category keyword only
NeedsLocationSearch_KeywordOnly(located, by_keyword, search_types) ==
    by_keyword # <<>>

\* NeedsLocationSearch with the inferred categories asking for a search too
NeedsLocationSearch_AlsoInferred(located, by_keyword, search_types) ==
    located \/ search_types # <<>>

\* needs_location_search: set by a location keyword or by a category keyword,
\* not by the categories inferred from the context
NeedsLocationSearch(located, by_keyword, search_types) ==
    located \/ by_keyword # <<>>

\* the outcome of the call: [raised |-> "", value |-> the dict returned], or
\* [raised |-> the exception's name].  ctx is None (the default) or a dict
\* with the key "analysis", whose value is None or an analysis dict.
agent_intelligent_query_analyzer(msg, ctx) ==
    LET message_lower == Lower(msg)
        by_keyword == KeywordSearchTypes(message_lower, 1)
        located == AnyIn(location_keywords, message_lower)
        infer == by_keyword = <<>> /\ ctx # None
        \* context.get("analysis", {}) is None: None has no attribute get
        fails == infer /\ ctx.analysis = None
        final_assessment == Get(ctx.analysis, "final_assessment", <<>>)
        search_types ==
            IF infer
            THEN InferredSearchTypes(Get(final_assessment, "damages", <<>>),
                                     Get(final_assessment, "severity", "minor"))
            ELSE by_keyword
    IN  IF fails THEN [raised |-> "AttributeError"]
        ELSE [raised |-> "",
              value |->
                [needs_location_search |-> NeedsLocationSearch(located, by_keyword, search_types),
                 search_types |-> search_types,
                 intent |-> IF located THEN "location_request" ELSE "general",
                 urgency |-> IF AnyIn(urgent_keywords, message_lower) THEN "urgent" ELSE "normal",
                 specific_requests |-> SpecificRequests(message_lower)]]

(***************************************************************************)
(* agent_location_search                                                   *)
(***************************************************************************)
\* the catalog; the rating, coordinates, services and map_ready fields of an
\* entry are left out (no operation modelled here reads them)
miami_services_db ==
    [tire_shop |->
        <<[id |-> "tire_kingdom_sw8", name |-> "Tire Kingdom", distance |-> "1.8 miles", type |-> "tire_shop",
           phone |-> "(305) 555-0123", address |-> "2500 SW 8th St, Miami, FL 33135",
           hours |-> "Mon-Sat 8AM-6PM, Sun 9AM-5PM",
           price_range |-> "$80-$300", wait_time |-> "30-60 minutes"],
          [id |-> "costco_tire_flagler", name |-> "Costco Tire Center", distance |-> "3.2 miles", type |-> "tire_shop",
           phone |-> "(305) 555-0456", address |-> "7795 W Flagler St, Miami, FL 33144",
           hours |-> "Mon-Fri 10AM-8PM, Sat 9:30AM-6PM, Sun 10AM-6PM",
           price_range |-> "$100-$400", wait_time |-> "45-90 minutes"],
          [id |-> "discount_tire_sw40", name |-> "Discount Tire", distance |-> "4.1 miles", type |-> "tire_shop",
           phone |-> "(305) 555-0789", address |-> "8901 SW 40th St, Miami, FL 33165",
           hours |-> "Mon-Fri 8AM-6PM, Sat 8AM-5PM",
           price_range |-> "$90-$350", wait_time |-> "20-45 minutes"]>>,
     tow_truck |->
        <<[id |-> "tremont_towing_dispatch", name |-> "Tremont Towing", distance |-> "2.1 miles", type |-> "tow_truck",
           phone |-> "(305) 555-0789", address |-> "Dispatch: 1520 NW 7th St, Miami, FL 33125",
           hours |-> "24/7 Emergency Service",
           price_range |-> "$75-$150", wait_time |-> "15-30 minutes"],
          [id |-> "usa_towing_nw36", name |-> "USA Towing", distance |-> "3.5 miles", type |-> "tow_truck",
           phone |-> "(305) 555-1234", address |-> "3501 NW 36th St, Miami, FL 33142",
           hours |-> "24/7",
           price_range |-> "$85-$200", wait_time |-> "20-45 minutes"]>>,
     auto_body_shop |->
        <<[id |-> "caliber_collision_nw27", name |-> "Caliber Collision", distance |-> "2.8 miles", type |-> "auto_body_shop",
           phone |-> "(305) 555-2468", address |-> "2900 NW 27th Ave, Miami, FL 33142",
           hours |-> "Mon-Fri 7:30AM-5:30PM",
           price_range |-> "$500-$5000+", wait_time |-> "3-7 days"],
          [id |-> "joes_auto_body_sw40", name |-> "Joe's Auto Body", distance |-> "4.1 miles", type |-> "auto_body_shop",
           phone |-> "(305) 555-3691", address |-> "6700 SW 40th St, Miami, FL 33155",
           hours |-> "Mon-Fri 8AM-5PM, Sat 9AM-1PM",
           price_range |-> "$300-$4000+", wait_time |-> "2-5 days"]>>,
     mechanic |->
        <<[id |-> "pep_boys_sw22", name |-> "Pep Boys", distance |-> "1.2 miles", type |-> "mechanic",
           phone |-> "(305) 555-4812", address |-> "1250 SW 22nd St, Miami, FL 33145",
           hours |-> "Mon-Sat 8AM-8PM, Sun 9AM-6PM",
           price_range |-> "$50-$800", wait_time |-> "30 minutes-2 hours"],
          [id |-> "gus_garage_sw32", name |-> "Gus's Garage", distance |-> "2.8 miles", type |-> "mechanic",
           phone |-> "(305) 555-5925", address |-> "3050 SW 32nd Ave, Miami, FL 33133",
           hours |-> "Mon-Fri 7AM-6PM, Sat 8AM-4PM",
           price_range |-> "$75-$1200", wait_time |-> "1-3 hours"]>>,
     hospital |->
        <<[id |-> "jackson_memorial_main", name |-> "Jackson Memorial Hospital", distance |-> "3.8 miles", type |-> "hospital",
           phone |-> "911 or (305) 585-1111", address |-> "1611 NW 12th Ave, Miami, FL 33136",
           hours |-> "24/7 Emergency Room",
           price_range |-> "Contact insurance", wait_time |-> "Varies by severity"],
          [id |-> "mercy_hospital_south", name |-> "Mercy Hospital", distance |-> "4.5 miles", type |-> "hospital",
           phone |-> "911 or (305) 854-4400", address |-> "3663 S Miami Ave, Miami, FL 33133",
           hours |-> "24/7 Emergency Department",
           price_range |-> "Insurance dependent", wait_time |-> "Based on triage"]>>]

\* the catalog key a query is mapped to
ServiceKey(query) ==
    LET query_lower == Lower(query)
    IN  IF AnyIn({"tire", "flat", "puncture", "wheel"}, query_lower) THEN "tire_shop"
        ELSE IF AnyIn({"tow", "towing", "stuck", "won't start", "can't drive"}, query_lower)
             THEN "tow_truck"
        ELSE IF AnyIn({"body", "collision", "dent", "scratch", "paint", "bumper"}, query_lower)
             THEN "auto_body_shop"
        ELSE IF AnyIn({"emergency", "hospital", "injured", "hurt", "medical"}, query_lower)
             THEN "hospital"
        ELSE "mechanic"

\* the dict returned, without its map_config and search_metadata
agent_location_search(query, location) ==
    LET service_key == ServiceKey(query)
        services == Get(miami_services_db, service_key, miami_services_db["mechanic"])
    IN  [query |-> query,
         location |-> location,
         service_type |-> service_key,
         services |-> services,
         total_found |-> Len(services),
         search_successful |-> TRUE]

(***************************************************************************)
(* generate_chat_response                                                  *)
(***************************************************************************)
NoAnalysisReply ==
    "I don't have any previous analysis to reference. Please start a new analysis with a video."

TirePricing ==
    "Tire replacement costs in Miami typically range from $100-$400 including installation, depending on your vehicle and tire quality. Budget tires run $80-150, while premium tires can cost $200-400 each."

MajorPricing ==
    "For major collision damage, repair costs can vary significantly from $2,000 to $15,000+ depending on the extent of damage. Body work typically costs $500-5,000, while structural repairs can be much higher."

MinorPricing ==
    "Minor repairs like small dents or scratches typically cost $300-$1,500. Touch-up paint jobs run $200-800, while small dent repair can be $150-500."

\* PricingParagraph with the major branch missing
PricingParagraph_NoMajor(severity, damages) ==
    IF Contains(Lower(PyStrList(damages)), "tire") THEN TirePricing ELSE MinorPricing

\* the paragraph answering a pricing request
PricingParagraph(severity, damages) ==
    IF Contains(Lower(PyStrList(damages)), "tire") THEN TirePricing
    ELSE IF severity = "major" THEN MajorPricing
    ELSE MinorPricing

InsuranceParagraph ==
    "When contacting your insurance, have your policy number, driver's license, and photos ready. Report the claim within 24-48 hours if possible. Your insurance will assign a claims adjuster and guide you through their specific process."

NextStepsParagraph(severity) ==
    IF severity = "severe" THEN
        "Your immediate priority should be medical attention and cooperating with emergency responders. Document everything once you're safe, and contact insurance after immediate needs are handled."
    ELSE IF severity = "major" THEN
        "Next steps: 1) Get a police report number, 2) Contact your insurance, 3) Get multiple repair estimates, 4) Arrange towing if needed, 5) Consider rental car coverage."
    ELSE
        "For your situation: 1) Take detailed photos, 2) Get a repair estimate, 3) Decide on insurance claim vs. paying out of pocket, 4) Monitor for any delayed issues or pain."

\* how many services of a search the narrative lists: services[:3]
TopServices == 3

RECURSIVE ServiceLines(_, _)
\* the numbered entries of the location paragraph, from the i-th service on
\* (the pictograph that opens each detail line in the source is left out)
ServiceLines(services, i) ==
    IF i > Len(services) THEN ""
    ELSE ToString(i) \o ". **" \o services[i].name \o "** (" \o services[i].distance \o ")\n"
         \o "    " \o services[i].address \o "\n"
         \o "    " \o services[i].phone \o "\n"
         \o "    " \o Get(services[i], "hours", "Call for hours") \o "\n"
         \o "    " \o Get(services[i], "price_range", "Call for pricing") \o "\n"
         \o (IF Get(services[i], "wait_time", "") # ""
             THEN "    Typical wait: " \o services[i].wait_time \o "\n" ELSE "")
         \o "\n"
         \o ServiceLines(services, i + 1)

LocationResponse(service_type) ==
    LET location_info == agent_location_search(service_type, "Miami, FL")
        services == Take(Get(location_info, "services", <<>>), TopServices)
        \* service_type.replace("_", " ").title().lower()
        service_display_name == Lower(Replace(service_type, "_", " "))
    IN  "I found several " \o service_display_name \o " options near you:\n\n"
        \o ServiceLines(services, 1)

ProTip(service_type) ==
    IF service_type = "tire_shop" THEN
        <<" Pro tip: Call ahead to confirm they have your tire size in stock and ask about road hazard warranties.">>
    ELSE IF service_type = "tow_truck" THEN
        <<" When calling for a tow, provide your exact location, vehicle make/model, and specify if you need flatbed service for AWD vehicles.">>
    ELSE IF service_type = "auto_body_shop" THEN
        <<" Ask about insurance direct billing and get a written estimate. Reputable shops should provide warranties on their work.">>
    ELSE IF service_type = "mechanic" THEN
        <<" For post-accident inspections, ask them to specifically check alignment, suspension, and frame integrity even if damage looks minor.">>
    ELSE <<>>

AskServiceType ==
    "I can help you find local services. What type of service do you need? (mechanic, tire shop, body shop, towing, etc.)"

GeneralReply(message_lower) ==
    IF AnyIn({"thank", "thanks"}, message_lower) THEN
        "You're welcome! I'm here to help you through this situation. Do you have any other questions about next steps or need help finding local services?"
    ELSE IF AnyIn({"help", "what", "how"}, message_lower) THEN
        "I can help you with next steps, finding local services, insurance guidance, or cost estimates. What specific information would be most helpful right now?"
    ELSE
        "I understand you're dealing with the aftermath of your accident. I can provide more details about next steps, help you find local services, or answer questions about the repair process. What would be most helpful?"

\* response_parts before the general replies
ResponseParts(query_analysis, severity, damages) ==
    (IF InList("pricing_info", query_analysis.specific_requests)
     THEN <<PricingParagraph(severity, damages)>> ELSE <<>>)
    \o (IF InList("insurance_guidance", query_analysis.specific_requests)
        THEN <<InsuranceParagraph>> ELSE <<>>)
    \o (IF InList("next_steps", query_analysis.specific_requests)
        THEN <<NextStepsParagraph(severity)>> ELSE <<>>)
    \o (IF query_analysis.needs_location_search
        THEN IF Len(query_analysis.search_types) > 0
             THEN <<LocationResponse(query_analysis.search_types[1])>>
                  \o ProTip(query_analysis.search_types[1])
             ELSE <<AskServiceType>>
        ELSE <<>>)

\* the str returned; the session_history argument is not read (the pictograph
\* that opens a pro tip in the source is left out, the blank after it is kept)
generate_chat_response(msg, analysis) ==
    IF analysis = None THEN NoAnalysisReply
    ELSE
        LET message_lower == Lower(msg)
            query_analysis ==
                agent_intelligent_query_analyzer(msg, [analysis |-> analysis]).value
            final_assessment == Get(analysis, "final_assessment", <<>>)
            severity == Get(final_assessment, "severity", "unknown")
            damages == Get(final_assessment, "damages", <<>>)
            response_parts == ResponseParts(query_analysis, severity, damages)
        IN  Join("\n", IF Len(response_parts) = 0
                       THEN <<GeneralReply(message_lower)>> ELSE response_parts)

(***************************************************************************)
(* The fusion as a state machine: the inputs are drawn, then one call of   *)
(* agent_decision_maker on the video analysis and the analyzed note, as    *)
(* analyze() of server/main.py makes it.                                   *)
(***************************************************************************)
InitFusion ==
    /\ pc = "input"
    /\ video \in VideoAnalyses
    /\ note \in Notes
    /\ decision = None
    /\ message = ""
    /\ last_analysis = None
    /\ context = None
    /\ intent = None
    /\ raised = ""
    /\ narrative = None
    /\ chat_sessions = EmptyStore
    /\ response = None
    /\ requests = 0
    /\ requested_id = ""

Fuse ==
    /\ pc = "input"
    /\ \E d \in agent_decision_maker(video, agent_analyze_text(note)) : decision' = d
    /\ pc' = "fused"
    /\ UNCHANGED <<video, note, message, last_analysis, context, intent, raised, narrative>>
    /\ UNCHANGED server_vars

NextFusion == Fuse

SpecFusion == InitFusion /\ [][NextFusion]_vars

\* the note as the text cue classifier reads it
TextContent == Lower(note)

\* the note counts as content
HasContent == agent_analyze_text(note).has_content

(***************************************************************************)
(* Claims about the fusion.                                                *)
(***************************************************************************)
\* C1: when the note has content, the final severity is severe if the note
\* holds a severe keyword (whatever else it holds), else major if it holds a
\* major keyword, else minor if it holds a minor keyword, else the video's.
C1_TextSeverityPrecedence ==
    (pc = "fused" /\ HasContent) =>
        decision.severity =
            IF AnyIn(SevereWords, TextContent) THEN "severe"
            ELSE IF AnyIn(MajorWords, TextContent) THEN "major"
            ELSE IF AnyIn(MinorWords, TextContent) THEN "minor"
            ELSE VideoSeverity(video)

\* a note with "911" and a major keyword over a minor video ends severe
C1_Witness ==
    /\ pc = "fused"
    /\ HasContent
    /\ Contains(TextContent, "911")
    /\ AnyIn(MajorWords, TextContent)
    /\ VideoSeverity(video) = "minor"
    /\ decision.severity = "severe"

\* C2 as stated: every note with content that holds "hit a pole" gives
\* cars_involved = 1.
C2_SoloAlwaysOne ==
    (pc = "fused" /\ HasContent /\ Contains(TextContent, "hit a pole")) =>
        decision.cars_involved = 1

\* C2 amended: a note with content that holds "hit a pole" and no
\* multi-vehicle keyword gives cars_involved = 1, whatever the video says.
C2_SoloWithoutMulti ==
    (/\ pc = "fused"
     /\ HasContent
     /\ Contains(TextContent, "hit a pole")
     /\ ~AnyIn(MultiWords, TextContent)) =>
        decision.cars_involved = 1

\* a video with three cars and a "hit a pole" note ends with one car
C2_Witness ==
    /\ pc = "fused"
    /\ HasContent
    /\ Contains(TextContent, "hit a pole")
    /\ ~AnyIn(MultiWords, TextContent)
    /\ VideoCarsInvolved(video) = 3
    /\ decision.cars_involved = 1

\* C3: a note with content that holds a multi-vehicle keyword gives
\* cars_involved = max(video cars, 2), also when a solo keyword is in the
\* same note, and never fewer cars than the video reports.
C3_MultiVehicleMax ==
    (pc = "fused" /\ HasContent /\ AnyIn(MultiWords, TextContent)) =>
        /\ decision.cars_involved = Max(VideoCarsInvolved(video), 2)
        /\ decision.cars_involved >= VideoCarsInvolved(video)

\* "two car" and "hit a pole" in one note over a one-car video: two cars
C3_Witness ==
    /\ pc = "fused"
    /\ HasContent
    /\ Contains(TextContent, "two car")
    /\ AnyIn(SoloWords, TextContent)
    /\ VideoCarsInvolved(video) = 1
    /\ decision.cars_involved = 2

\* the damage tags whose keyword group matches the note
MatchedDamageTags ==
    IF HasContent
    THEN {t \in ToSet(DamageTypes) : AnyIn(text_damage_indicators[t], TextContent)}
    ELSE {}

\* C4: the reported damages hold no tag twice and are, as a set, the video
\* damages together with one tag per matching text damage group.
C4_DamagesUniqueUnion ==
    (pc = "fused") =>
        /\ \A i, j \in 1..Len(decision.damages) :
              i # j => decision.damages[i] # decision.damages[j]
        /\ ToSet(decision.damages) = ToSet(VideoDamages(video)) \cup MatchedDamageTags

\* video ["tire damage"] with a note about a flat tire: the tag is reported once
C4_Witness ==
    /\ pc = "fused"
    /\ "damages" \in DOMAIN video
    /\ video.damages = <<"tire damage">>
    /\ note = "I hit a pothole and now my tire is flat"
    /\ decision.damages = <<"tire damage">>

\* C5: the severity is minor, major or severe, and the priority is medium,
\* high or emergency accordingly, whatever else the assessment holds.
C5_PriorityFromSeverity ==
    (pc = "fused") =>
        /\ decision.severity \in Severities
        /\ decision.priority =
              CASE decision.severity = "minor" -> "medium"
                [] decision.severity = "major" -> "high"
                [] decision.severity = "severe" -> "emergency"

\* a text override that lowers a severe video to minor gives priority medium
C5_Witness ==
    /\ pc = "fused"
    /\ decision.text_override_applied
    /\ VideoSeverity(video) = "severe"
    /\ decision.severity = "minor"
    /\ decision.priority = "medium"

\* C6: comprehensive_tips has at most eight entries and starts with the two
\* documentation tips, in their order.
C6_TipsCapDocsFirst ==
    (pc = "fused") =>
        /\ Len(decision.comprehensive_tips) <= 8
        /\ Len(decision.comprehensive_tips) >= 2
        /\ decision.comprehensive_tips[1] = DocumentationTips[1]
        /\ decision.comprehensive_tips[2] = DocumentationTips[2]

\* all four conditional tips apply: nine tips are built and eight reported
C6_Witness ==
    /\ pc = "fused"
    /\ decision.cars_involved > 1
    /\ HasTireDamage(decision.damages)
    /\ decision.severity = "severe"
    /\ Len(decision.comprehensive_tips) = 8
    /\ decision.comprehensive_tips[1] = DocumentationTips[1]

\* C10: without text content, a field the video analysis lacks counts as
\* minor, one car or no damages, so the empty video analysis gives minor,
\* one car, no damages, priority medium and no text override.
C10_DefaultsForMissingFields ==
    (pc = "fused" /\ ~HasContent) =>
        /\ ("severity" \notin DOMAIN video) => decision.severity = "minor"
        /\ ("cars_involved" \notin DOMAIN video) => decision.cars_involved = 1
        /\ ("damages" \notin DOMAIN video) => decision.damages = <<>>
        /\ (DOMAIN video = {}) =>
              /\ decision.priority = "medium"
              /\ decision.text_override_applied = FALSE

\* the empty video analysis fused with a note without content
C10_Witness ==
    /\ pc = "fused"
    /\ DOMAIN video = {}
    /\ ~HasContent
    /\ decision.severity = "minor"
    /\ decision.cars_involved = 1
    /\ decision.damages = <<>>
    /\ decision.priority = "medium"

(***************************************************************************)
(* Inputs of a follow-up: the messages and the prior analyses drawn.       *)
(***************************************************************************)
\* fragments a message is made of; a message joins up to MaxMsgParts of them,
\* in this order
MessageParts ==
    <<"where can I get towed, this is an emergency", "how much will this cost",
      "hello there", "a mechanic or a tire shop", "paint job", "file a police report",
      "thanks", "what now with insurance", "anything nearby", "What is the PRICE">>

RECURSIVE JoinParts(_, _)
\* the fragments whose indices are in picked, in index order
JoinParts(picked, i) ==
    IF i > Len(MessageParts) THEN <<>>
    ELSE (IF i \in picked THEN <<MessageParts[i]>> ELSE <<>>) \o JoinParts(picked, i + 1)

Messages ==
    {Join(" ", JoinParts(picked, 1)) :
        picked \in {P \in SUBSET (1..Len(MessageParts)) : Cardinality(P) <= MaxMsgParts}}

PriorDamageLists == {<<>>, <<"tire damage">>, <<"scratches", "dents">>}

\* the analyses a session can hold: what analyze() stores for a video analysis
\* of each severity and damage list and a note without content
PriorAnalyses ==
    UNION {
        { AnalysisOf(v, agent_analyze_text(""), d) :
            d \in agent_decision_maker(v, agent_analyze_text("")) }
        : v \in {[severity |-> sv, cars_involved |-> 1, damages |-> dm] :
                    sv \in Severities, dm \in PriorDamageLists} }

(***************************************************************************)
(* A follow-up as a state machine: the message and the prior analysis are  *)
(* drawn, then either the intent classifier or the narrative composer is   *)
(* called.  The classifier is called without a context (its default, None) *)
(* or with the dict {"analysis": last_analysis} that chat_followup builds, *)
(* in which last_analysis is None when no analysis entry was found.        *)
(***************************************************************************)
InitIntent ==
    /\ pc = "input"
    /\ video = <<>>
    /\ note = ""
    /\ decision = None
    /\ message \in Messages
    /\ last_analysis \in {None} \cup PriorAnalyses
    /\ context \in {None, [analysis |-> last_analysis]}
    /\ intent = None
    /\ raised = ""
    /\ narrative = None
    /\ chat_sessions = EmptyStore
    /\ response = None
    /\ requests = 0
    /\ requested_id = ""

Classify ==
    /\ pc = "input"
    /\ LET r == agent_intelligent_query_analyzer(message, context)
       IN  /\ raised' = r.raised
           /\ intent' = IF r.raised = "" THEN r.value ELSE None
    /\ pc' = "classified"
    /\ UNCHANGED <<video, note, decision, message, last_analysis, context, narrative>>
    /\ UNCHANGED server_vars

Compose ==
    /\ pc = "input"
    /\ context # None
    /\ narrative' = generate_chat_response(message, last_analysis)
    /\ pc' = "composed"
    /\ UNCHANGED <<video, note, decision, message, last_analysis, context, intent, raised>>
    /\ UNCHANGED server_vars

NextIntent == Classify \/ Compose

SpecIntent == InitIntent /\ [][NextIntent]_vars

(***************************************************************************)
(* Claims about the follow-up.                                             *)
(***************************************************************************)
\* C7: asked to classify the intent or to compose the chat narrative with no
\* prior assessment, the core signals InvalidSession: the classifier neither
\* raises another error nor returns a QueryIntent, and the composer returns
\* no narrative other than its refusal.
C7_InvalidSessionSignalled ==
    /\ (pc = "classified" /\ last_analysis = None) => raised = "InvalidSession"
    /\ (pc = "composed" /\ last_analysis = None) =>
          (raised = "InvalidSession" \/ narrative = NoAnalysisReply)

TowMessage == "where can I get towed, this is an emergency"

\* C8 as stated: the tow message classified with no prior assessment gives
\* needs_location_search, search_types exactly [tow_truck] and urgency urgent.
C8_TowOnly ==
    (pc = "classified" /\ message = TowMessage /\ last_analysis = None) =>
        /\ raised = ""
        /\ intent.needs_location_search
        /\ intent.search_types = <<"tow_truck">>
        /\ intent.urgency = "urgent"

\* C8 amended: the tow message classified with no prior assessment gives
\* needs_location_search, search_types [tow_truck, hospital] ("emergency" is
\* a hospital keyword) and urgency urgent.
C8_TowAndHospital ==
    (pc = "classified" /\ message = TowMessage /\ last_analysis = None) =>
        /\ raised = ""
        /\ intent.needs_location_search
        /\ intent.search_types = <<"tow_truck", "hospital">>
        /\ intent.urgency = "urgent"

\* the tow message has been classified without a context
C8_Witness ==
    /\ pc = "classified"
    /\ message = TowMessage
    /\ context = None
    /\ intent.search_types = <<"tow_truck", "hospital">>
    /\ intent.urgency = "urgent"

\* the message asks for pricing
AsksPricing ==
    \/ Contains(Lower(message), "cost")
    \/ Contains(Lower(message), "price")
    \/ Contains(Lower(message), "how much")

\* C9 as stated: a pricing request over a prior assessment of severity major
\* is answered with the "$2,000 to $15,000" paragraph, whatever the damages.
C9_MajorCostAlways ==
    (/\ pc = "composed"
     /\ last_analysis # None
     /\ AsksPricing
     /\ last_analysis.final_assessment.severity = "major") =>
        Contains(narrative, "$2,000 to $15,000")

\* C9 amended: a pricing request over a prior assessment of severity major
\* whose damages do not mention "tire" is answered with the
\* "$2,000 to $15,000" paragraph.
C9_MajorCostWithoutTire ==
    (/\ pc = "composed"
     /\ last_analysis # None
     /\ AsksPricing
     /\ last_analysis.final_assessment.severity = "major"
     /\ ~HasTireDamage(last_analysis.final_assessment.damages)) =>
        Contains(narrative, "$2,000 to $15,000")

\* "how much will this cost" over a major assessment with scratches and dents
C9_Witness ==
    /\ pc = "composed"
    /\ last_analysis # None
    /\ message = "how much will this cost"
    /\ last_analysis.final_assessment.severity = "major"
    /\ ToSet(last_analysis.final_assessment.damages) = {"scratches", "dents"}
    /\ Contains(narrative, "$2,000 to $15,000")

(***************************************************************************)
(* Further claims about the fusion.                                        *)
(***************************************************************************)
\* the tip is one of the reported comprehensive_tips
InTips(tip) ==
    \E i \in 1..Len(decision.comprehensive_tips) : decision.comprehensive_tips[i] = tip

\* the conditional tips follow their conditions
ConditionalTips ==
    /\ \A i \in 1..2 : InTips(MultiVehicleTips[i]) <=> decision.cars_involved > 1
    /\ InTips(TireTip) <=> HasTireDamage(decision.damages)
    /\ InTips(MedicalTip) <=> decision.severity \in {"major", "severe"}

\* every conditional tip applies: nine tips are built
AllConditionalTips ==
    /\ decision.cars_involved > 1
    /\ HasTireDamage(decision.damages)
    /\ decision.severity \in {"major", "severe"}

\* C12 as stated: the tips hold the two documentation tips and all three
\* insurance tips for every input, and each conditional tip exactly under
\* its condition.
C12_TipsAlwaysComplete ==
    (pc = "fused") =>
        /\ \A i \in 1..2 : InTips(DocumentationTips[i])
        /\ \A i \in 1..3 : InTips(InsuranceTips[i])
        /\ ConditionalTips

\* C12 amended: the tips hold the two documentation tips and the first two
\* insurance tips for every input and each conditional tip exactly under its
\* condition; the third insurance tip is present unless all three conditions
\* hold, where the cap of eight cuts it.
C12_TipsByCondition ==
    (pc = "fused") =>
        /\ \A i \in 1..2 : InTips(DocumentationTips[i])
        /\ \A i \in 1..2 : InTips(InsuranceTips[i])
        /\ InTips(InsuranceTips[3]) <=> ~AllConditionalTips
        /\ ConditionalTips

\* a major multi-vehicle accident with tire damage: the medical tip is
\* reported and the third insurance tip is cut
C12_Witness ==
    /\ pc = "fused"
    /\ decision.severity = "major"
    /\ AllConditionalTips
    /\ InTips(MedicalTip)
    /\ InTips(InsuranceTips[2])
    /\ ~InTips(InsuranceTips[3])

\* the categories of the reported location_recommendations, in order
RecommendedTypes ==
    [i \in 1..Len(decision.location_recommendations) |->
        decision.location_recommendations[i].type]

\* C13: for a minor final severity location_recommendations ends with a
\* mechanic entry of priority "soon", preceded by a tire_shop entry of
\* priority "urgent" exactly when a final damage tag contains "tire"
\* (compared in lower case); for a major or severe final severity it holds
\* neither a mechanic nor a tire_shop entry.
C13_RecommendationsBySeverity ==
    (pc = "fused") =>
        LET recs == decision.location_recommendations
            n == Len(recs)
        IN  /\ (decision.severity = "minor") =>
                /\ n >= 1
                /\ recs[n].type = "mechanic"
                /\ recs[n].priority = "soon"
                /\ HasTireDamage(decision.damages) <=>
                       (n >= 2 /\ recs[n - 1].type = "tire_shop"
                               /\ recs[n - 1].priority = "urgent")
                /\ HasTireDamage(decision.damages) <=> InList("tire_shop", RecommendedTypes)
            /\ (decision.severity \in {"major", "severe"}) =>
                /\ ~InList("mechanic", RecommendedTypes)
                /\ ~InList("tire_shop", RecommendedTypes)

\* the pothole note over a minor video without damages: still minor, the one
\* damage tag is tire damage, and the tire shop precedes the mechanic
C13_Witness ==
    /\ pc = "fused"
    /\ note = "I hit a pothole and now my tire is flat"
    /\ VideoSeverity(video) = "minor"
    /\ VideoDamages(video) = <<>>
    /\ decision.severity = "minor"
    /\ decision.damages = <<"tire damage">>
    /\ RecommendedTypes = <<"tire_shop", "mechanic">>

\* C14: a note whose trimmed length is five characters or fewer has no
\* content and is not classified: the final severity and cars_involved are
\* the video's, the final damages are the video's as a set, and
\* text_override_applied is false, keyword or not.
C14_ShortNoteIgnored ==
    (pc = "fused" /\ Len(Strip(note)) <= 5) =>
        /\ decision.severity = VideoSeverity(video)
        /\ decision.cars_involved = VideoCarsInvolved(video)
        /\ ToSet(decision.damages) = ToSet(VideoDamages(video))
        /\ decision.text_override_applied = FALSE

\* the note " 911  " (six characters, three trimmed) over a minor video:
\* the severe cue 911 is not read
C14_Witness ==
    /\ pc = "fused"
    /\ note = " 911  "
    /\ Contains(note, "911")
    /\ VideoSeverity(video) = "minor"
    /\ decision.severity = "minor"
    /\ decision.text_override_applied = FALSE

\* a final value differs from the video-derived one
ChangedByText ==
    \/ decision.severity # VideoSeverity(video)
    \/ decision.cars_involved # VideoCarsInvolved(video)
    \/ ToSet(decision.damages) # ToSet(VideoDamages(video))

\* a severity cue or a vehicle-count cue occurs in a note with content
CueFired ==
    /\ Len(Strip(note)) > 5
    /\ \/ AnyIn(SevereWords \cup MajorWords \cup MinorWords, Lower(note))
       \/ AnyIn(MultiWords \cup SoloWords, Lower(note))

\* the overview summary says the text description was prioritized
SaysPrioritized ==
    Contains(decision.overview_summary, "prioritized your text description")

\* C15 as stated: text_override_applied is true exactly when the final
\* severity, cars_involved or damages set differs from the video's; when all
\* three equal the video's the summary does not say the text was prioritized.
C15_FlagIffChanged ==
    (pc = "fused") =>
        /\ decision.text_override_applied <=> ChangedByText
        /\ ~ChangedByText => ~SaysPrioritized

\* C15 amended: text_override_applied is true exactly when, in a note with
\* content, a severity cue or a vehicle-count cue matched or a damage tag was
\* added; every difference from the video's values sets it, and the summary
\* says the text was prioritized exactly when it is set.
C15_FlagIffCue ==
    (pc = "fused") =>
        /\ decision.text_override_applied <=>
               (CueFired \/ ToSet(decision.damages) # ToSet(VideoDamages(video)))
        /\ ChangedByText => decision.text_override_applied
        /\ SaysPrioritized <=> decision.text_override_applied

\* a severe cue over a severe video: nothing differs, the flag is set and the
\* summary says so
C15_Witness ==
    /\ pc = "fused"
    /\ CueFired
    /\ VideoSeverity(video) = "severe"
    /\ ~ChangedByText
    /\ decision.text_override_applied
    /\ SaysPrioritized

(***************************************************************************)
(* Claims about the intent classifier.                                     *)
(***************************************************************************)
\* a prior assessment is supplied to the classifier
PriorSupplied == context # None /\ last_analysis # None

\* the search_types the context inference can produce
InferredShapes ==
    {<<"tire_shop">>, <<"hospital", "tow_truck">>, <<"auto_body_shop", "tow_truck">>,
     <<"mechanic">>}

KeywordMatched(category) == AnyIn(ServiceKeywords(category), Lower(message))

\* the six service categories
Categories == {"tire_shop", "tow_truck", "mechanic", "auto_body_shop", "hospital", "police"}

\* a damage tag of the prior assessment contains "tire"
PriorTireDamage ==
    \E i \in 1..Len(last_analysis.final_assessment.damages) :
        Contains(Lower(last_analysis.final_assessment.damages[i]), "tire")

\* C16: with no keyword matched and a prior assessment supplied, search_types
\* is [tire_shop] if a damage tag contains "tire", else [hospital, tow_truck]
\* if severe, else [auto_body_shop, tow_truck] if major, else [mechanic];
\* with no keyword matched and no context it stays empty; with a keyword
\* matched it holds keyword-matched categories only.
C16_ContextInference ==
    (pc = "classified" /\ raised = "") =>
        LET matched == {c \in Categories : KeywordMatched(c)}
            severity == last_analysis.final_assessment.severity
        IN  /\ (matched # {}) => ToSet(intent.search_types) = matched
            /\ (matched = {} /\ context = None) => intent.search_types = <<>>
            /\ (matched = {} /\ PriorSupplied) =>
                   intent.search_types =
                       IF PriorTireDamage THEN <<"tire_shop">>
                       ELSE IF severity = "severe" THEN <<"hospital", "tow_truck">>
                       ELSE IF severity = "major" THEN <<"auto_body_shop", "tow_truck">>
                       ELSE <<"mechanic">>

\* a severe prior assessment with tire damage and a message without a
\* keyword: the tire shop alone is inferred
C16_Witness ==
    /\ pc = "classified"
    /\ raised = ""
    /\ PriorSupplied
    /\ message = "hello there"
    /\ last_analysis.final_assessment.severity = "severe"
    /\ PriorTireDamage
    /\ intent.search_types = <<"tire_shop">>

\* C17: the keyword-matched categories are listed once each in the order
\* tire_shop, tow_truck, mechanic, auto_body_shop, hospital, police, whatever
\* their order in the message, and any match sets needs_location_search.
C17_FixedCategoryOrder ==
    (pc = "classified" /\ raised = "" /\ \E c \in Categories : KeywordMatched(c)) =>
        /\ intent.search_types =
               SelectSeq(<<"tire_shop", "tow_truck", "mechanic", "auto_body_shop",
                           "hospital", "police">>, KeywordMatched)
        /\ intent.needs_location_search = TRUE

\* the mechanic is named before the tire shop and listed after it
C17_Witness ==
    /\ pc = "classified"
    /\ raised = ""
    /\ message = "a mechanic or a tire shop"
    /\ intent.search_types = <<"tire_shop", "mechanic">>
    /\ intent.needs_location_search = TRUE

(***************************************************************************)
(* The server (main.py): analyze                                           *)
(***************************************************************************)
\* search_queries[:4]: at most this many categories are looked up
MaxSearches == 4

\* services_with_context[:3] and the [:3] slices of chat_followup
TopPerCategory == 3

\* all_services[:6]
MaxServices == 6

advice_templates ==
    [tire_shop |->
        [minor |-> "Check if they can inspect your wheel alignment - impacts often affect it.",
         major |-> "Ask about emergency tire service and if they can check for suspension damage.",
         severe |-> "Call ahead - you may need emergency roadside tire replacement."],
     tow_truck |->
        [minor |-> "If driving safely, you may not need a tow. Get an estimate first.",
         major |-> "Request a flatbed tow to prevent further damage to your vehicle.",
         severe |-> "Priority emergency towing - mention if there are injuries involved."],
     auto_body_shop |->
        [minor |-> "Get a free estimate first before deciding on repairs vs. insurance claim.",
         major |-> "Ask about insurance direct billing and rental car arrangements.",
         severe |-> "Focus on certified collision centers experienced with major damage."],
     mechanic |->
        [minor |-> "Request a post-accident inspection even if damage looks minimal.",
         major |-> "Ask for a comprehensive diagnostic to check for hidden damage.",
         severe |-> "Ensure they're equipped to handle extensive mechanical damage."],
     hospital |->
        [minor |-> "Visit urgent care if you experience delayed pain or discomfort.",
         major |-> "Get checked even if you feel fine - adrenaline can mask injuries.",
         severe |-> "Call 911 or go to emergency room immediately."]]

\* _generate_service_advice
generate_service_advice(service, dec) ==
    LET service_type == Get(service, "type", "")
        severity == Get(dec, "severity", "minor")
        damages == Get(dec, "damages", <<>>)
        service_advice == Get(advice_templates, service_type, <<>>)
        advice == Get(service_advice, severity,
                      "Contact them about your " \o severity \o " accident situation.")
        damages_lower == Lower(PyStrList(damages))
    IN  IF Contains(damages_lower, "tire") /\ service_type = "tire_shop"
        THEN advice \o " Mention the tire damage when calling."
        ELSE IF Contains(damages_lower, "engine") /\ service_type = "mechanic"
        THEN advice \o " Specifically mention potential engine issues."
        ELSE advice

\* PrimaryQueries choosing by the severity first, as the fusion's
\* recommendation step does
PrimaryQueries_SeverityFirst(severity, final_damages) ==
    IF severity = "severe" THEN <<"hospital", "tow_truck">>
    ELSE IF severity = "major" THEN <<"auto_body_shop", "tow_truck">>
    ELSE IF \E i \in 1..Len(final_damages) : Contains(Lower(final_damages[i]), "tire")
    THEN <<"tire_shop", "tow_truck">>
    ELSE <<"mechanic">>

\* the primary service determination of analyze
PrimaryQueries(severity, final_damages) ==
    IF severity = "severe" THEN <<"hospital", "tow_truck">>
    ELSE IF \E i \in 1..Len(final_damages) : Contains(Lower(final_damages[i]), "tire")
    THEN <<"tire_shop", "tow_truck">>
    ELSE IF severity = "major" THEN <<"auto_body_shop", "tow_truck">>
    ELSE <<"mechanic">>

RECURSIVE AddRecommended(_, _, _)
\* the loop adding the categories of location_recommendations not yet listed
AddRecommended(search_queries, location_recommendations, i) ==
    IF i > Len(location_recommendations) THEN search_queries
    ELSE LET service_type == location_recommendations[i].type
         IN  AddRecommended(IF InList(service_type, search_queries) THEN search_queries
                            ELSE Append(search_queries, service_type),
                            location_recommendations, i + 1)

\* search_queries of analyze
SearchQueries(dec) ==
    AddRecommended(PrimaryQueries(Get(dec, "severity", "minor"), Get(dec, "damages", <<>>)),
                   Get(dec, "location_recommendations", <<>>), 1)

\* service_id of analyze
ServiceId(service) == Get(service, "name", "") \o "-" \o Get(service, "address", "")

\* the service dict after analyze has attached the first matching
\* recommendation and the advice to it
WithContext(service, query, dec) ==
    LET recs == Get(dec, "location_recommendations", <<>>)
        matching == {i \in 1..Len(recs) : recs[i].type = query}
        rec == recs[CHOOSE i \in matching : \A j \in matching : i <= j]
        recommended ==
            IF matching = {} THEN service
            ELSE [recommendation_reason |-> rec.reason,
                  priority |-> Get(rec, "priority", "normal")] @@ service
    IN  [ai_advice |-> generate_service_advice(recommended, dec)] @@ recommended

RECURSIVE ScanServices(_, _, _, _)
\* the inner loop of analyze over the top services of one category; acc holds
\* the services list of location_info (whose dicts the loop updates in
\* place), seen_services and all_services
ScanServices(acc, i, query, dec) ==
    IF i > Len(Take(acc.services, TopPerCategory)) THEN acc
    ELSE LET service == acc.services[i]
             service_id == ServiceId(service)
             updated == WithContext(service, query, dec)
         IN  IF service_id \in acc.seen_services THEN ScanServices(acc, i + 1, query, dec)
             ELSE ScanServices([services |-> [acc.services EXCEPT ![i] = updated],
                                seen_services |-> acc.seen_services \cup {service_id},
                                all_services |-> Append(acc.all_services, updated)],
                               i + 1, query, dec)

RECURSIVE SearchServices(_, _, _, _, _)
\* the search loop of analyze; acc holds location_services, seen_services
\* and all_services
SearchServices(queries, i, user_location, dec, acc) ==
    IF i > Len(queries) THEN acc
    ELSE LET query == queries[i]
             location_info == agent_location_search(query, user_location)
             scanned == ScanServices([services |-> Get(location_info, "services", <<>>),
                                      seen_services |-> acc.seen_services,
                                      all_services |-> acc.all_services], 1, query, dec)
         IN  SearchServices(queries, i + 1, user_location, dec,
                 [location_services |->
                      (query :> [location_info EXCEPT !.services = scanned.services])
                          @@ acc.location_services,
                  seen_services |-> scanned.seen_services,
                  all_services |-> scanned.all_services])

\* recommendations.services without the cap
TopServicesOf_Uncapped(all_services) == all_services

\* all_services[:6]
TopServicesOf(all_services) == Take(all_services, MaxServices)

\* the response dict of analyze
AnalyzeResponse(new_session_id, video_analysis, text_analysis, dec, user_location) ==
    LET search_queries == SearchQueries(dec)
        found == SearchServices(Take(search_queries, MaxSearches), 1, user_location, dec,
                                [location_services |-> [q \in {} |-> None],
                                 seen_services |-> {},
                                 all_services |-> <<>>])
    IN  [session_id |-> new_session_id,
         analysis |-> AnalysisOf(video_analysis, text_analysis, dec),
         location_services |-> found.location_services,
         user_location |-> user_location,
         recommendations |->
             [immediate_actions |-> Get(dec, "immediate_actions", <<>>),
              general_advice |-> Get(dec, "general_advice", <<>>),
              services |-> TopServicesOf(found.all_services),
              comprehensive_tips |-> Get(dec, "comprehensive_tips", <<>>)],
         priority |-> Get(dec, "priority", "medium"),
         timestamp |-> "now",
         context |->
             [search_queries_used |-> search_queries,
              total_services_found |-> Len(found.all_services)]]

\* the history entry analyze stores
AnalysisEntry(filename, text_input, user_location, resp, dec) ==
    [type |-> "analysis",
     user_input |-> [video_filename |-> filename, note |-> text_input,
                     location |-> user_location],
     ai_response |-> resp,
     context |-> [analysis_summary |-> Get(dec, "overview_summary", None),
                  priority |-> Get(dec, "priority", None),
                  service_needs |-> resp.context.search_queries_used]]

\* StoreAppend starting the session's history over with the entry
StoreAppend_Restart(store, session_id, entry) ==
    [k \in DOMAIN store \cup {session_id} |->
        IF k = session_id THEN <<entry>> ELSE store[k]]

\* chat_sessions with the entry appended to the session, created if absent
StoreAppend(store, session_id, entry) ==
    [k \in DOMAIN store \cup {session_id} |->
        IF k = session_id
        THEN Append(IF session_id \in DOMAIN store THEN store[session_id] ELSE <<>>, entry)
        ELSE store[k]]

\* f"session_{len(chat_sessions)}" for "new", else the id the client sent
NewSessionId(session_id, store) ==
    IF session_id = "new" THEN "session_" \o ToString(Cardinality(DOMAIN store))
    ELSE session_id

(***************************************************************************)
(* Requests the model sends to the server.                                 *)
(***************************************************************************)
\* requests handled in one behaviour
MaxRequests == 3

\* the uploads: what agent_analyze_video reports for the video, and the note
Uploads ==
    {[video |-> [severity |-> "minor", cars_involved |-> 1, damages |-> <<"tire damage">>],
      note |-> ""],
     [video |-> [severity |-> "minor", cars_involved |-> 1, damages |-> <<"tire damage">>],
      note |-> "needs a tow"],
     [video |-> [severity |-> "severe", cars_involved |-> 2, damages |-> <<>>],
      note |-> ""]}

\* session_id of analyze: the default "new" or an id the client chooses
AnalyzeSessionIds == {"new", "session_1"}

\* session ids of chat and delete requests
ChatSessionIds == {"session_0", "session_1", "session_7"}

\* user_location (its default) and the name of the uploaded file
UserLocation == "Miami, FL"

VideoFilename == "crash.mp4"

\* the message typed and the transcription of the optional audio ("" without)
ChatInputs ==
    {[message |-> "where can I get towed, this is an emergency", transcribed_text |-> ""],
     [message |-> "how much will this cost", transcribed_text |-> ""],
     [message |-> "anything nearby", transcribed_text |-> ""],
     [message |-> "file a police report", transcribed_text |-> ""],
     [message |-> "thanks",
      transcribed_text |-> "my tire is flat, the engine won't start and I am hurt"]}

(***************************************************************************)
(* The server (main.py): chat_followup and delete_session                  *)
(***************************************************************************)
\* query_analysis["search_types"][:3]: at most this many types are searched
MaxSearchTypes == 3

\* LastAnalysis reading the oldest analysis entry of the history
LastAnalysis_Oldest(chat_history) ==
    LET found == {i \in 1..Len(chat_history) : chat_history[i].type = "analysis"}
    IN  IF found = {} THEN None
        ELSE chat_history[CHOOSE i \in found : \A j \in found : i <= j].ai_response.analysis

\* the "analysis" of the most recent analysis entry of the history, or None
LastAnalysis(chat_history) ==
    LET found == {i \in 1..Len(chat_history) : chat_history[i].type = "analysis"}
    IN  IF found = {} THEN None
        ELSE chat_history[CHOOSE i \in found : \A j \in found : i >= j].ai_response.analysis

RECURSIVE FoundServices(_, _)
\* all_found_services: the top services of each searched type, each marked
\* with its search_context
FoundServices(search_types, i) ==
    IF i > Len(search_types) THEN <<>>
    ELSE LET service_type == search_types[i]
             location_info == agent_location_search(service_type, "Miami, FL")
             services == Take(Get(location_info, "services", <<>>), TopPerCategory)
         IN  [j \in 1..Len(services) |->
                 [search_context |-> "User requested " \o Replace(service_type, "_", " ")]
                     @@ services[j]]
             \o FoundServices(search_types, i + 1)

\* location_data of chat_followup, without its map_center
LocationData(query_analysis, full_message) ==
    IF query_analysis.needs_location_search /\ query_analysis.search_types # <<>>
    THEN LET all_found_services ==
                 FoundServices(Take(query_analysis.search_types, MaxSearchTypes), 1)
         IN  [services |-> all_found_services,
              search_types |-> query_analysis.search_types,
              query_intent |-> query_analysis.intent,
              zoom_level |-> 12,
              search_metadata |->
                  [total_results |-> Len(all_found_services),
                   search_successful |-> TRUE,
                   user_query |-> full_message]]
    ELSE None

\* the words by which a narrative already mentions location results
ResultWords == {"found", "located", "here are"}

\* the sentence chat_followup appends
FoundSentence(location_data) ==
    "\n\nI found " \o ToString(Len(location_data.services)) \o " nearby "
        \o Join(", ", [i \in 1..Len(location_data.search_types) |->
                          Replace(location_data.search_types[i], "_", " ")])
        \o " options for you. You can see them on the map below."

\* EnhanceResponse appending the sentence to every narrative with location data
EnhanceResponse_AlwaysAppend(response_text, location_data) ==
    IF location_data # None
    THEN response_text \o FoundSentence(location_data)
    ELSE response_text

\* response_text after the enhancement step of chat_followup
EnhanceResponse(response_text, location_data) ==
    IF location_data # None /\ ~AnyIn(ResultWords, Lower(response_text))
    THEN response_text \o FoundSentence(location_data)
    ELSE response_text

\* the chat entry chat_followup stores
ChatEntry(full_message, response_text, location_data, query_analysis) ==
    [type |-> "chat",
     user_message |-> full_message,
     ai_response |-> response_text,
     location_data |-> location_data,
     query_analysis |-> query_analysis,
     timestamp |-> "now"]

\* StoreDelete emptying the history and keeping the session id
StoreDelete_KeepsId(store, session_id) ==
    [k \in DOMAIN store |-> IF k = session_id THEN <<>> ELSE store[k]]

\* chat_sessions after del chat_sessions[session_id]
StoreDelete(store, session_id) == [k \in DOMAIN store \ {session_id} |-> store[k]]

(***************************************************************************)
(* The server as a state machine: it starts with an empty store and        *)
(* handles up to MaxRequests requests, one handler at a time.              *)
(***************************************************************************)
InitServer ==
    /\ pc = "idle"
    /\ video = <<>>
    /\ note = ""
    /\ decision = None
    /\ message = ""
    /\ last_analysis = None
    /\ context = None
    /\ intent = None
    /\ raised = ""
    /\ narrative = None
    /\ chat_sessions = EmptyStore
    /\ response = None
    /\ requests = 0
    /\ requested_id = ""

\* POST /analyze
Analyze ==
    /\ requests < MaxRequests
    /\ \E upload \in Uploads, session_id \in AnalyzeSessionIds :
         LET text_analysis == agent_analyze_text(upload.note)
         IN  \E dec \in agent_decision_maker(upload.video, text_analysis) :
                 LET new_session_id == NewSessionId(session_id, chat_sessions)
                     resp == AnalyzeResponse(new_session_id, upload.video, text_analysis,
                                             dec, UserLocation)
                 IN  /\ video' = upload.video
                     /\ note' = upload.note
                     /\ decision' = dec
                     /\ response' = resp
                     /\ requested_id' = session_id
                     /\ chat_sessions' =
                            StoreAppend(chat_sessions, new_session_id,
                                        AnalysisEntry(VideoFilename, upload.note,
                                                      UserLocation, resp, dec))
    /\ requests' = requests + 1
    /\ pc' = "analyzed"
    /\ UNCHANGED <<message, last_analysis, context, intent, raised, narrative>>

\* POST /chat
Chat ==
    /\ requests < MaxRequests
    /\ requests' = requests + 1
    /\ UNCHANGED <<video, note, decision>>
    /\ \E session_id \in ChatSessionIds, input \in ChatInputs :
         /\ requested_id' = session_id
         /\ IF session_id \notin DOMAIN chat_sessions
            THEN /\ response' = [error |-> "Session not found"]
                 /\ pc' = "refused"
                 /\ UNCHANGED <<message, last_analysis, context, intent, raised, narrative,
                                chat_sessions>>
            ELSE LET full_message == Strip(input.message \o " " \o input.transcribed_text)
                     chat_history == chat_sessions[session_id]
                     found_analysis == LastAnalysis(chat_history)
                     called == agent_intelligent_query_analyzer(
                                   full_message, [analysis |-> found_analysis])
                 IN  /\ message' = full_message
                     /\ last_analysis' = found_analysis
                     /\ context' = [analysis |-> found_analysis]
                     /\ raised' = called.raised
                     /\ IF called.raised # ""
                        THEN /\ intent' = None
                             /\ response' = None
                             /\ pc' = "failed"
                             /\ UNCHANGED <<narrative, chat_sessions>>
                        ELSE LET query_analysis == called.value
                                 location_data == LocationData(query_analysis, full_message)
                                 generated ==
                                     generate_chat_response(full_message, found_analysis)
                                 response_text == EnhanceResponse(generated, location_data)
                                 store == StoreAppend(chat_sessions, session_id,
                                              ChatEntry(full_message, response_text,
                                                        location_data, query_analysis))
                             IN  /\ intent' = query_analysis
                                 /\ narrative' = generated
                                 /\ chat_sessions' = store
                                 /\ response' =
                                        [session_id |-> session_id,
                                         response |-> response_text,
                                         location_data |-> location_data,
                                         chat_history |-> store[session_id],
                                         query_analysis |-> query_analysis]
                                 /\ pc' = "chatted"

\* DELETE /session/{session_id}
DeleteSession ==
    /\ requests < MaxRequests
    /\ requests' = requests + 1
    /\ pc' = "deleted"
    /\ \E session_id \in ChatSessionIds :
         /\ requested_id' = session_id
         /\ IF session_id \in DOMAIN chat_sessions
            THEN /\ chat_sessions' = StoreDelete(chat_sessions, session_id)
                 /\ response' = [message |-> "Session " \o session_id \o " deleted"]
            ELSE /\ response' = [error |-> "Session not found"]
                 /\ UNCHANGED chat_sessions
    /\ UNCHANGED <<video, note, decision, message, last_analysis, context, intent, raised,
                   narrative>>

NextServer == Analyze \/ Chat \/ DeleteSession

SpecServer == InitServer /\ [][NextServer]_vars

(***************************************************************************)
(* Claims about the server's analyze and chat handlers.                    *)
(***************************************************************************)
\* search_queries as the analysis response reports it
UsedQueries == response.context.search_queries_used

\* position of the category in search_queries
QueryIndex(category) == CHOOSE i \in 1..Len(UsedQueries) : UsedQueries[i] = category

\* search_queries starts with the primary categories, then lists the
\* categories of location_recommendations not among them in their order,
\* without a duplicate; the first four are the categories looked up
QueriesFollow(primary) ==
    LET recommended == RecommendedTypes
        added == {i \in 1..Len(recommended) : ~InList(recommended[i], primary)}
    IN  /\ Len(UsedQueries) >= Len(primary)
        /\ SubSeq(UsedQueries, 1, Len(primary)) = primary
        /\ \A i, j \in 1..Len(UsedQueries) : UsedQueries[i] = UsedQueries[j] => i = j
        /\ ToSet(UsedQueries) = ToSet(primary) \cup ToSet(recommended)
        /\ \A i, j \in added :
               i < j => QueryIndex(recommended[i]) < QueryIndex(recommended[j])
        /\ DOMAIN response.location_services = ToSet(Take(UsedQueries, 4))
        /\ Cardinality(DOMAIN response.location_services) <= 4

\* C18 as stated: the search categories of an analysis start with the
\* categories chosen as the fusion chooses (severity first: severe, then
\* major; tire damage only for a minor accident), merged with the categories
\* of location_recommendations without duplicates and in order; at most four
\* are looked up.
C18_SeverityFirstQueries ==
    (pc = "analyzed") =>
        QueriesFollow(IF decision.severity = "severe" THEN <<"hospital", "tow_truck">>
                      ELSE IF decision.severity = "major"
                      THEN <<"auto_body_shop", "tow_truck">>
                      ELSE IF HasTireDamage(decision.damages)
                      THEN <<"tire_shop", "tow_truck">>
                      ELSE <<"mechanic">>)

\* C18 amended: the search categories of an analysis start with hospital and
\* tow_truck for a severe accident, else with tire_shop and tow_truck when a
\* damage tag contains "tire" (a major accident included), else with
\* auto_body_shop and tow_truck for a major accident, else with mechanic;
\* they are merged with the categories of location_recommendations without
\* duplicates and in order, and at most four are looked up.
C18_TireBeforeMajorQueries ==
    (pc = "analyzed") =>
        QueriesFollow(IF decision.severity = "severe" THEN <<"hospital", "tow_truck">>
                      ELSE IF HasTireDamage(decision.damages)
                      THEN <<"tire_shop", "tow_truck">>
                      ELSE IF decision.severity = "major"
                      THEN <<"auto_body_shop", "tow_truck">>
                      ELSE <<"mechanic">>)

\* a major accident with tire damage: the fusion recommends the body shop
\* and the tow truck, the search starts with the tire shop
C18_Witness ==
    /\ pc = "analyzed"
    /\ decision.severity = "major"
    /\ HasTireDamage(decision.damages)
    /\ RecommendedTypes = <<"auto_body_shop", "tow_truck">>
    /\ UsedQueries = <<"tire_shop", "tow_truck", "auto_body_shop">>

RECURSIVE CandidateIds(_, _)
\* ids of the catalog's first three services of each category, in the order
\* of the categories
CandidateIds(queries, i) ==
    IF i > Len(queries) THEN <<>>
    ELSE LET services == Take(agent_location_search(queries[i], UserLocation).services, 3)
         IN  [j \in 1..Len(services) |-> services[j].id] \o CandidateIds(queries, i + 1)

\* C19: recommendations.services of an analysis response has at most six
\* entries, at most three of a category, no two with the same name and
\* address, and is the first six candidates in category-search order and
\* then catalog rank.
C19_ServicesCapped ==
    (pc = "analyzed") =>
        LET services == response.recommendations.services
        IN  /\ Len(services) <= 6
            /\ \A category \in Categories :
                   Cardinality({i \in 1..Len(services) : services[i].type = category}) <= 3
            /\ \A i, j \in 1..Len(services) :
                   (services[i].name = services[j].name
                       /\ services[i].address = services[j].address) => i = j
            /\ [i \in 1..Len(services) |-> services[i].id]
                   = Take(CandidateIds(Take(UsedQueries, 4), 1), 6)

\* three categories searched, seven candidates found, six reported
C19_Witness ==
    /\ pc = "analyzed"
    /\ Len(UsedQueries) = 3
    /\ response.context.total_services_found = 7
    /\ Len(response.recommendations.services) = 6
    /\ response.recommendations.services[6].type = UsedQueries[3]

\* the text mentions location results
MentionsResults(text) == AnyIn({"found", "located", "here are"}, Lower(text))

\* C20: a chat turn that returns location_data returns a text that mentions
\* the location results: the narrative with one sentence giving the count and
\* the categories appended when the narrative has none of "found",
\* "located", "here are", and the narrative itself otherwise.
C20_ResponseMentionsResults ==
    (pc = "chatted" /\ response.location_data # None) =>
        /\ MentionsResults(response.response)
        /\ response.response =
               IF MentionsResults(narrative)
               THEN narrative
               ELSE narrative \o "\n\nI found "
                        \o ToString(Len(response.location_data.services)) \o " nearby "
                        \o Join(", ", [i \in 1..Len(response.location_data.search_types) |->
                                          Replace(response.location_data.search_types[i],
                                                  "_", " ")])
                        \o " options for you. You can see them on the map below."

\* "anything nearby" after an analysis: services are returned and the
\* narrative, which lists them, is the response
C20_Witness ==
    /\ pc = "chatted"
    /\ message = "anything nearby"
    /\ response.location_data # None
    /\ Len(response.location_data.services) > 0
    /\ MentionsResults(narrative)
    /\ response.response = narrative

(***************************************************************************)
(* Claims about the session store.                                         *)
(***************************************************************************)
\* positions of the analysis entries in a history
AnalysisEntries(history) == {i \in 1..Len(history) : history[i].type = "analysis"}

\* the analysis of the latest analysis entry of a history that has one
LatestAnalysis(history) ==
    history[CHOOSE i \in AnalysisEntries(history) :
                \A j \in AnalysisEntries(history) : i >= j].ai_response.analysis

\* C21: a chat turn reads the most recent analysis entry of its session:
\* the inferred categories and the narrative are those the classifier and the
\* composer give for the message and that analysis, whatever analyses and
\* chat turns precede it in the history.
C21_LatestAnalysisIsContext ==
    (pc = "chatted") =>
        LET latest == LatestAnalysis(response.chat_history)
        IN  /\ AnalysisEntries(response.chat_history) # {}
            /\ last_analysis = latest
            /\ intent = agent_intelligent_query_analyzer(message, [analysis |-> latest]).value
            /\ narrative = generate_chat_response(message, latest)

\* a minor analysis with tire damage, then a severe one in the same session,
\* then "anything nearby": hospital and tow truck are inferred, not the tire shop
C21_Witness ==
    /\ pc = "chatted"
    /\ message = "anything nearby"
    /\ Cardinality(AnalysisEntries(response.chat_history)) = 2
    /\ response.chat_history[1].ai_response.analysis.final_assessment.severity = "minor"
    /\ HasTireDamage(response.chat_history[1].ai_response.analysis.final_assessment.damages)
    /\ last_analysis.final_assessment.severity = "severe"
    /\ intent.search_types = <<"hospital", "tow_truck">>

\* C22: every session id of the store maps to a non-empty history whose
\* first entry is an analysis entry; so a chat turn on an existing session
\* finds a prior assessment and neither fails nor answers that there is no
\* previous analysis.
C22_HistoriesStartWithAnalysis ==
    /\ \A session_id \in DOMAIN chat_sessions :
           /\ Len(chat_sessions[session_id]) >= 1
           /\ chat_sessions[session_id][1].type = "analysis"
    /\ pc # "failed"
    /\ (pc = "chatted") =>
           /\ last_analysis # None
           /\ narrative # NoAnalysisReply

\* a session holding an analysis entry and then a chat entry, after a chat
\* turn that found the assessment
C22_Witness ==
    /\ pc = "chatted"
    /\ last_analysis # None
    /\ \E session_id \in DOMAIN chat_sessions :
           /\ Len(chat_sessions[session_id]) = 2
           /\ chat_sessions[session_id][1].type = "analysis"
           /\ chat_sessions[session_id][2].type = "chat"

\* C23 as stated: an analyze request with session_id "new" is given a
\* session id that is not in the store when the request arrives, so its
\* analysis entry opens a history and is not appended to an existing one.
C23_NewIdIsFresh ==
    [][(pc' = "analyzed" /\ requested_id' = "new") =>
           /\ response'.session_id \notin DOMAIN chat_sessions
           /\ Len(chat_sessions'[response'.session_id]) = 1]_vars

\* C24: a chat request on a session of the store appends one chat entry to
\* the end of that session's history and leaves its earlier entries and every
\* other session as they were; on a session id that is not in the store it
\* returns the error "Session not found" and leaves the store as it was.
C24_ChatAppendsOneEntry ==
    [][(pc' \in {"chatted", "refused", "failed"}) =>
           IF requested_id' \in DOMAIN chat_sessions
           THEN LET before == chat_sessions[requested_id']
                    after == chat_sessions'[requested_id']
                IN  /\ pc' = "chatted"
                    /\ DOMAIN chat_sessions' = DOMAIN chat_sessions
                    /\ \A other \in DOMAIN chat_sessions \ {requested_id'} :
                           chat_sessions'[other] = chat_sessions[other]
                    /\ Len(after) = Len(before) + 1
                    /\ SubSeq(after, 1, Len(before)) = before
                    /\ after[Len(after)].type = "chat"
                    /\ after[Len(after)].user_message = message'
                    /\ after[Len(after)].ai_response = response'.response
           ELSE /\ pc' = "refused"
                /\ response' = [error |-> "Session not found"]
                /\ chat_sessions' = chat_sessions]_vars

\* two sessions in the store, the addressed one with an analysis entry and
\* the chat entry just appended
C24_Witness ==
    /\ pc = "chatted"
    /\ Cardinality(DOMAIN chat_sessions) = 2
    /\ Len(chat_sessions[requested_id]) = 2
    /\ chat_sessions[requested_id][1].type = "analysis"
    /\ chat_sessions[requested_id][2].type = "chat"
    /\ chat_sessions[requested_id][2].ai_response = response.response

\* C25 as stated: the catalog lookup for a service type returns services of
\* that type only, so each candidate a chat turn marks "User requested X" is
\* a service of category X.
C25_LookupReturnsRequestedType ==
    (pc = "chatted" /\ response.location_data # None) =>
        \A i \in 1..Len(response.location_data.services) :
            LET service == response.location_data.services[i]
            IN  /\ service.type \in ToSet(response.location_data.search_types)
                /\ service.search_context
                       = "User requested " \o Replace(service.type, "_", " ")

\* the message holds a location keyword
LocationWordInMessage ==
    AnyIn({"where", "nearby", "close", "location", "address", "directions", "map"},
          Lower(message))

\* C26 as stated: in every QueryIntent a non-empty search_types implies
\* needs_location_search = true.
C26_TypesImplySearch ==
    (pc = "classified" /\ raised = "") =>
        (intent.search_types # <<>> => intent.needs_location_search = TRUE)

\* C26 amended: needs_location_search is true exactly when the message holds
\* a category keyword or a location keyword; categories inferred from the
\* prior assessment do not set it, so they lead to a lookup only when the
\* message holds a location keyword.
C26_SearchNeedsKeyword ==
    (pc = "classified" /\ raised = "") =>
        LET matched == {c \in Categories : KeywordMatched(c)}
        IN  /\ intent.needs_location_search <=> (matched # {} \/ LocationWordInMessage)
            /\ (matched # {}) => intent.search_types # <<>>
            /\ (matched = {} /\ PriorSupplied) => intent.search_types # <<>>

\* "hello there" over a prior assessment: a category is inferred and no
\* search is asked for
C26_Witness ==
    /\ pc = "classified"
    /\ raised = ""
    /\ message = "hello there"
    /\ PriorSupplied
    /\ intent.search_types # <<>>
    /\ intent.needs_location_search = FALSE

====
